---- MODULE Spec2Model ----
(***************************************************************************)
(* Granular synthesizer: voice registry, ADSR envelope and the lookahead   *)
(* grain scheduler of the App component, with the React start/stop effect  *)
(* that owns the animation-frame loop.                                     *)
(*                                                                         *)
(* Units.  Times are integers in milliseconds (0.1 s = 100).  Levels       *)
(* (velocity, sustain, gains) are integers in thousandths (0.8 = 800).     *)
(* An envelope gain is kept as an exact fraction [num, den] of thousandths *)
(* so that no rounding enters a comparison: the value is num / den / 1000. *)
(* Arithmetic is exact (the source's doubles are idealised as reals).      *)
(*                                                                         *)
(* React.  A handler's setState calls make the start/stop effect due.  For  *)
(* a discrete event (a click, a key, a pointer event) the re-render, the   *)
(* effect's cleanup and its body run before anything else, so they are     *)
(* part of the handler's step.  For a MIDI message and for the decoder's   *)
(* completion the re-render is pending (RunEffect); until it runs only     *)
(* further such events (batched into it) and a due animation frame run.    *)
(***************************************************************************)
EXTENDS Integers, Sequences, FiniteSets, TLC

VARIABLES
    clock,          \* audioContext.currentTime (0 while there is no context)
    audioContext,   \* the AudioContext exists
    audioBuffer,    \* a decoded sample is loaded
    uploading,      \* handleFileUpload is awaiting the decoder
    isPlaying,      \* drone mode
    activeNotes,    \* activeNotesRef.current: note -> NoteState
    activeNotesUI,  \* the list of visually active notes
    paramsRef,      \* paramsRef.current
    nextGrainTime,  \* nextGrainTimeRef.current
    timerIdRef,     \* timerIdRef.current: "null" or "id"
    frames,         \* requested animation frames that were not cancelled
    effectDue,      \* why the start/stop effect has to re-run ("none": it has not)
    grains,         \* the grains the last step handed to the audio graph
    events,         \* the number of input events handled so far
    last,           \* the last step, when it was a note event, a frame ("tick" when its
                    \* scheduleGrains got past its guard) or the effect
    probe,          \* one registry entry followed through its slots (envelope study)
    sampleRange,    \* the clip window [start, end] (React state), in thousandths
    sampleRangeRef, \* sampleRangeRef.current: the clip window the scheduler reads
    placed,         \* one grain's placement: its inputs and result (placement study)
    params,         \* the parameter set (React state), which updateParam spreads
    fx,             \* per effect-send control, the last call that set it
    presetClosure,  \* the render closure of a handleAIPresets call awaiting its preset
    dragMode        \* Waveform's dragMode: "none", "left", "right" or "move"

vars == <<clock, audioContext, audioBuffer, uploading, isPlaying, activeNotes,
          activeNotesUI, paramsRef, nextGrainTime, timerIdRef, frames, effectDue,
          grains, events, last, probe, sampleRange, sampleRangeRef, placed,
          params, fx, presetClosure, dragMode>>

(***************************************************************************)
(* Bounds of the model.                                                    *)
(***************************************************************************)
MaxAdvances == 3
MaxFrames == 2
MaxEvents == 4

Notes == {48, 60}
MidiVelocities == {500}
ClockSteps == {100}
ReleaseValues == {100, 500}
ClipWindows == {<<0, 1000>>, <<250, 750>>}
SustainLevels == {0, 800}
MaxClock == MaxAdvances * 100
MaxEnvTime == 800

(***************************************************************************)
(* Program constants.                                                      *)
(***************************************************************************)
Lookahead == 100
MinSpacing == 5
ResyncLimit == 200
Epsilon == 1
SilenceThreshold == 1
Ramp == 100
DelayFloor == 1
RateFloor == 1000000
DefaultVelocity == 800
BaseNote == 48
Undefined == -1

\* useState<[number, number]>([0, 1])
FullRange == <<0, 1000>>

Max(a, b) == IF a >= b THEN a ELSE b
Min(a, b) == IF a <= b THEN a ELSE b

\* JavaScript truthiness of an optional number: undefined and 0 are falsy.
Truthy(x) == x # Undefined /\ x # 0

DefaultParams ==
    [position |-> 500, spread |-> 100, grainSize |-> 100, density |-> 50,
     pitch |-> 1000, pitchSpread |-> 0, volume |-> 700,
     attack |-> 100, decay |-> 200, sustain |-> 800, release |-> 500,
     delayTime |-> 300, delayFeedback |-> 400, delayWet |-> 0, reverbWet |-> 0]

(***************************************************************************)
(* Parameters and the effect sends.                                        *)
(***************************************************************************)
FxControls == {"delayTime", "delayFeedback", "delayWet", "reverbWet"}

\* No control exists before initAudio builds the graph.
NoFx == [c \in FxControls |-> [method |-> "none", target |-> 0, timeConstant |-> 0]]

NoClosure == [pending |-> FALSE, params |-> DefaultParams]

\* updateParam's newParams = { ...params, [key]: value }, params being the state of
\* the render the calling closure belongs to.
NewParams(closureParams, key, value) == [closureParams EXCEPT ![key] = value]

\* The order of the updateParam calls of handleAIPresets.
PresetKeys ==
    <<"grainSize", "density", "spread", "pitch", "pitchSpread", "attack", "decay",
      "sustain", "release", "delayTime", "delayFeedback", "delayWet", "reverbWet">>

\* The updateParam calls of handleAIPresets from the i-th on, all made by one
\* closure: each sets the state and paramsRef.current to its own newParams.
RECURSIVE PresetCalls(_, _, _, _)
PresetCalls(closureParams, cur, preset, i) ==
    IF i > Len(PresetKeys)
    THEN cur
    ELSE PresetCalls(closureParams,
                     NewParams(closureParams, PresetKeys[i], preset[PresetKeys[i]]),
                     preset, i + 1)

\* The smoothing effect with the delay-time control left out.
FxEffectSkipDelay(S) ==
    IF ~S.ctx
    THEN S
    ELSE [S EXCEPT !.fx = [c \in FxControls |->
            IF c = "delayTime" THEN S.fx[c]
            ELSE [method |-> "setTargetAtTime", target |-> S.pstate[c],
                  timeConstant |-> Ramp]]]

\* The effect on [params, audioContext]: setTargetAtTime on the four controls.
FxEffect(S) ==
    IF ~S.ctx
    THEN S
    ELSE [S EXCEPT !.fx = [c \in FxControls |->
            [method |-> "setTargetAtTime",
             target |-> IF c = "delayTime" THEN Max(DelayFloor, S.pstate[c])
                        ELSE S.pstate[c],
             timeConstant |-> Ramp]]]

(***************************************************************************)
(* Voice registry entries.                                                 *)
(***************************************************************************)
\* handleNoteOn: { velocity, startTime, isReleased: false }, no releaseTime.
NoteOnKeepEntry(old, velocity, startTime) ==
    [old EXCEPT !.velocity = velocity, !.startTime = startTime, !.isReleased = FALSE]

NoteOnEntry(old, velocity, startTime) ==
    [velocity |-> velocity, startTime |-> startTime,
     isReleased |-> FALSE, releaseTime |-> Undefined]

\* handleNoteOff: { ...noteData, isReleased: true, releaseTime: currentTime }.
NoteOffNoTimeEntry(noteData, now) ==
    [noteData EXCEPT !.isReleased = TRUE]

NoteOffRestartEntry(noteData, now) ==
    [velocity |-> noteData.velocity, startTime |-> now,
     isReleased |-> TRUE, releaseTime |-> now]

NoteOffEntry(noteData, now) ==
    [noteData EXCEPT !.isReleased = TRUE, !.releaseTime = now]

NoEntry ==
    [velocity |-> 0, startTime |-> 0, isReleased |-> FALSE, releaseTime |-> Undefined]

\* Map.set and Map.delete
MapSet(m, k, v) == [x \in DOMAIN m \cup {k} |-> IF x = k THEN v ELSE m[x]]
MapDelete(m, k) == [x \in DOMAIN m \ {k} |-> m[x]]

SeqElems(s) == {s[i] : i \in 1..Len(s)}
\* A filter that drops nothing.
SeqFilterKeep(s, drop) == s

SeqFilter(s, drop) == SelectSeq(s, LAMBDA x : x # drop)

(***************************************************************************)
(* Envelope (scheduleGrains, "Calculate Envelope").                        *)
(***************************************************************************)
Frac(n, d) == [num |-> n, den |-> d]

\* A decay that interpolates towards 1 - sustain instead of sustain.
EnvGainWrongDecay(data, now, p) ==
    LET timeSinceStart == now - data.startTime
        safeTime == Max(0, timeSinceStart)
    IN  IF ~data.isReleased
        THEN IF safeTime < p.attack
             THEN Frac(1000 * safeTime, Max(Epsilon, p.attack))
             ELSE IF safeTime < p.attack + p.decay
                  THEN Frac(1000 * Max(Epsilon, p.decay)
                              - p.sustain * (safeTime - p.attack),
                            Max(Epsilon, p.decay))
                  ELSE Frac(p.sustain, 1)
        ELSE IF Truthy(data.releaseTime)
             THEN LET timeSinceRelease == now - data.releaseTime
                  IN  IF timeSinceRelease < p.release
                      THEN Frac(p.sustain * (Max(Epsilon, p.release) - timeSinceRelease),
                                Max(Epsilon, p.release))
                      ELSE Frac(0, 1)
             ELSE Frac(0, 1)

EnvGain(data, now, p) ==
    LET timeSinceStart == now - data.startTime
        safeTime == Max(0, timeSinceStart)
    IN  IF ~data.isReleased
        THEN IF safeTime < p.attack
             THEN Frac(1000 * safeTime, Max(Epsilon, p.attack))
             ELSE IF safeTime < p.attack + p.decay
                  THEN Frac(1000 * Max(Epsilon, p.decay)
                              - (1000 - p.sustain) * (safeTime - p.attack),
                            Max(Epsilon, p.decay))
                  ELSE Frac(p.sustain, 1)
        ELSE IF Truthy(data.releaseTime)
             THEN LET timeSinceRelease == now - data.releaseTime
                  IN  IF timeSinceRelease < p.release
                      THEN Frac(p.sustain * (Max(Epsilon, p.release) - timeSinceRelease),
                                Max(Epsilon, p.release))
                      ELSE Frac(0, 1)
             ELSE Frac(0, 1)

\* A threshold that lets a gain of exactly 0 through.
AudibleFromZero(g) == g.num >= 0

\* envGain > 0.001
Audible(g) == g.num > SilenceThreshold * g.den

(***************************************************************************)
(* scheduleGrains.                                                         *)
(***************************************************************************)
\* A sweep that also marks the notes it keeps as released.
SweepReleasing(notes, now, p) ==
    [n \in {m \in DOMAIN notes :
              ~(notes[m].isReleased /\ Truthy(notes[m].releaseTime)
                /\ now > notes[m].releaseTime + p.release)} |->
        [notes[n] EXCEPT !.isReleased = TRUE]]

\* "Cleanup finished notes"
Expired(data, now, p) ==
    data.isReleased /\ Truthy(data.releaseTime) /\ now > data.releaseTime + p.release

Sweep(notes, now, p) ==
    [n \in {m \in DOMAIN notes : ~Expired(notes[m], now, p)} |-> notes[n]]

\* rate = p.pitch * Math.pow(2, semitones / 12), for notes whole octaves above
\* the base note (the notes of this model).
Rate(p, note) == p.pitch * 2 ^ ((note - BaseNote) \div 12)

\* gain: data.velocity * envGain, in thousandths.
VoiceGain(velocity, g) == Frac(velocity * g.num, 1000 * g.den)

\* The drone voice is pushed only when no registry voice sounds.
SlotGrainsDroneAlone(notes, now, p, playing) ==
    LET voices == {[time |-> now, isDrone |-> FALSE, note |-> n,
                    env |-> EnvGain(notes[n], now, p), velocity |-> notes[n].velocity,
                    rate |-> Rate(p, n),
                    gain |-> VoiceGain(notes[n].velocity, EnvGain(notes[n], now, p))] :
                      n \in {m \in DOMAIN Sweep(notes, now, p) :
                                Audible(EnvGain(notes[m], now, p))}}
    IN  IF playing /\ voices = {}
        THEN {[time |-> now, isDrone |-> TRUE, note |-> BaseNote,
               env |-> Frac(1000, 1), velocity |-> 1000,
               rate |-> p.pitch, gain |-> Frac(1000, 1)]}
        ELSE voices

\* notesToPlay of one slot; the order of the voices within a slot is not kept.
SlotGrains(notes, now, p, playing) ==
    (IF playing
     THEN {[time |-> now, isDrone |-> TRUE, note |-> BaseNote,
            env |-> Frac(1000, 1), velocity |-> 1000,
            rate |-> p.pitch, gain |-> Frac(1000, 1)]}
     ELSE {})
    \cup
    {[time |-> now, isDrone |-> FALSE, note |-> n,
      env |-> EnvGain(notes[n], now, p), velocity |-> notes[n].velocity,
      rate |-> Rate(p, n),
      gain |-> VoiceGain(notes[n].velocity, EnvGain(notes[n], now, p))] :
        n \in {m \in DOMAIN Sweep(notes, now, p) : Audible(EnvGain(notes[m], now, p))}}

\* The slot loop with a spacing floor of 0.05 s.
RECURSIVE SlotLoopCoarseFloor(_, _, _, _, _, _)
SlotLoopCoarseFloor(notes, ngt, out, now, p, playing) ==
    IF ngt < now + Lookahead
    THEN SlotLoopCoarseFloor(Sweep(notes, ngt, p),
                           ngt + Max(50, p.density),
                           out \cup SlotGrains(notes, ngt, p, playing),
                           now, p, playing)
    ELSE [notes |-> notes, ngt |-> ngt, out |-> out]

\* The slot loop with twice the minimum spacing.
RECURSIVE SlotLoopDoubleFloor(_, _, _, _, _, _)
SlotLoopDoubleFloor(notes, ngt, out, now, p, playing) ==
    IF ngt < now + Lookahead
    THEN SlotLoopDoubleFloor(Sweep(notes, ngt, p),
                             ngt + Max(2 * MinSpacing, p.density),
                             out \cup SlotGrains(notes, ngt, p, playing),
                             now, p, playing)
    ELSE [notes |-> notes, ngt |-> ngt, out |-> out]

\* The slot loop that also processes the slot at the end of the lookahead window.
RECURSIVE SlotLoopInclusive(_, _, _, _, _, _)
SlotLoopInclusive(notes, ngt, out, now, p, playing) ==
    IF ngt <= now + Lookahead
    THEN SlotLoopInclusive(Sweep(notes, ngt, p),
                           ngt + Max(MinSpacing, p.density),
                           out \cup SlotGrains(notes, ngt, p, playing),
                           now, p, playing)
    ELSE [notes |-> notes, ngt |-> ngt, out |-> out]

\* while (nextGrainTimeRef.current < ctx.currentTime + 0.1) { ... }
RECURSIVE SlotLoop(_, _, _, _, _, _)
SlotLoop(notes, ngt, out, now, p, playing) ==
    IF ngt < now + Lookahead
    THEN SlotLoop(Sweep(notes, ngt, p),
                  ngt + Max(MinSpacing, p.density),
                  out \cup SlotGrains(notes, ngt, p, playing),
                  now, p, playing)
    ELSE [notes |-> notes, ngt |-> ngt, out |-> out]

\* requestAnimationFrame(cb): the new frame's id is the one timerIdRef will hold.
Request(fs, cl) ==
    Append([i \in 1..Len(fs) |-> [fs[i] EXCEPT !.cur = FALSE]],
           [cur |-> TRUE, playing |-> cl.playing, buf |-> cl.buf])

\* cancelAnimationFrame(timerIdRef.current)
Cancel(fs) == SelectSeq(fs, LAMBDA f : ~f.cur)

RemoveAt(s, i) == [j \in 1..(Len(s) - 1) |-> IF j < i THEN s[j] ELSE s[j + 1]]

\* The program's state as one record, so that a handler, the scheduleGrains call
\* it makes and the re-render it causes compose.  out: the grains handed over.
Cur ==
    [clock |-> clock, ctx |-> audioContext, buf |-> audioBuffer, upl |-> uploading,
     playing |-> isPlaying, notes |-> activeNotes, ui |-> activeNotesUI,
     params |-> paramsRef, ngt |-> nextGrainTime, timer |-> timerIdRef,
     frames |-> frames, due |-> effectDue, out |-> {},
     clip |-> sampleRange, clipRef |-> sampleRangeRef,
     pstate |-> params, fx |-> fx, closure |-> presetClosure]

RECURSIVE Gcd(_, _)
Gcd(a, b) == IF b = 0 THEN a ELSE Gcd(b, a % b)

\* The same fraction in lowest terms (the value is what the source's number is).
Reduce(f) ==
    LET g == Gcd(IF f.num < 0 THEN -f.num ELSE f.num, f.den)
    IN  IF g = 0 THEN f ELSE Frac(f.num \div g, f.den \div g)

\* peakGain = p.volume * voice.gain, in thousandths.
PeakGain(volume, gain) ==
    LET g == Reduce(gain) IN Frac(volume * g.num, 1000 * g.den)

\* A window that peaks at the middle of the grain only.
WindowTriangle(now, duration, peakGain) ==
    <<[call |-> "setValueAtTime", value |-> Frac(0, 1), time |-> 1000 * now],
      [call |-> "linearRampToValueAtTime", value |-> peakGain,
       time |-> 1000 * now + 500 * duration],
      [call |-> "linearRampToValueAtTime", value |-> peakGain,
       time |-> 1000 * now + 500 * duration],
      [call |-> "linearRampToValueAtTime", value |-> Frac(0, 1),
       time |-> 1000 * now + 1000 * duration]>>

\* "Hanning Window": the four automation calls on env.gain, times in microseconds.
Window(now, duration, peakGain) ==
    <<[call |-> "setValueAtTime", value |-> Frac(0, 1), time |-> 1000 * now],
      [call |-> "linearRampToValueAtTime", value |-> peakGain,
       time |-> 1000 * now + 200 * duration],
      [call |-> "linearRampToValueAtTime", value |-> peakGain,
       time |-> 1000 * now + 800 * duration],
      [call |-> "linearRampToValueAtTime", value |-> Frac(0, 1),
       time |-> 1000 * now + 1000 * duration]>>

\* A grain that takes the clip window from the snapshot at every other slot only.
EmitTorn(voice, p, clip) ==
    [time |-> voice.time, isDrone |-> voice.isDrone, note |-> voice.note,
     env |-> voice.env, velocity |-> voice.velocity, rate |-> voice.rate,
     gain |-> voice.gain, duration |-> p.grainSize,
     window |-> Window(voice.time, p.grainSize, PeakGain(p.volume, voice.gain)),
     clip |-> IF voice.time % 100 = 0 THEN clip ELSE FullRange]

\* notesToPlay.forEach(voice => ...): the grain of one voice, as far as it depends
\* on the snapshots p and [clipStart, clipEnd] and not on a random draw.
Emit(voice, p, clip) ==
    [time |-> voice.time, isDrone |-> voice.isDrone, note |-> voice.note,
     env |-> voice.env, velocity |-> voice.velocity, rate |-> voice.rate,
     gain |-> voice.gain, duration |-> p.grainSize,
     window |-> Window(voice.time, p.grainSize, PeakGain(p.volume, voice.gain)),
     clip |-> clip]

(***************************************************************************)
(* Grain placement.  Proportions (position, spread, the clip window) are in*)
(* thousandths, the sample's duration and grainSize in milliseconds, the   *)
(* random draw (Math.random() - 0.5) * 2, which lies in [-1, 1), in tenths,*)
(* and the resulting offset in microseconds.  With spread, the window's    *)
(* bounds and the duration all multiples of ten, every division is exact.  *)
(***************************************************************************)
\* The placement with a random offset that does not scale with spread.
PlaceUnscaledDraw(p, clip, sampleDuration, r) ==
    LET clipDurationPct == clip[2] - clip[1]
        rel0 == p.position + r * 10
        rel1 == IF rel0 < 0 THEN rel0 + 1000 ELSE rel0
        relativeGrainPos == IF rel1 > 1000 THEN rel1 - 1000 ELSE rel1
        safeStartPct == 1000 * clip[1] + relativeGrainPos * clipDurationPct
    IN  [relativeGrainPos |-> relativeGrainPos,
         safeStartPct |-> safeStartPct,
         shifted |-> FALSE,
         offsetSeconds |-> (safeStartPct \div 1000) * sampleDuration
                            + ((safeStartPct % 1000) * sampleDuration) \div 1000,
         duration |-> p.grainSize]

\* The placement with the relative position clamped into [0, 1], not wrapped.
PlaceClamped(p, clip, sampleDuration, r) ==
    LET clipDurationPct == clip[2] - clip[1]
        randomOffset == (r * p.spread) \div 10
        relativeGrainPos == Max(0, Min(1000, p.position + randomOffset))
        safeStartPct == 1000 * clip[1] + relativeGrainPos * clipDurationPct
    IN  [relativeGrainPos |-> relativeGrainPos,
         safeStartPct |-> safeStartPct,
         shifted |-> FALSE,
         offsetSeconds |-> (safeStartPct \div 1000) * sampleDuration
                            + ((safeStartPct % 1000) * sampleDuration) \div 1000,
         duration |-> p.grainSize]

\* The placement without the shift that makes the grain fit.
PlaceUnshifted(p, clip, sampleDuration, r) ==
    LET clipDurationPct == clip[2] - clip[1]
        randomOffset == (r * p.spread) \div 10
        rel0 == p.position + randomOffset
        rel1 == IF rel0 < 0 THEN rel0 + 1000 ELSE rel0
        relativeGrainPos == IF rel1 > 1000 THEN rel1 - 1000 ELSE rel1
        absolutePosPct == 1000 * clip[1] + relativeGrainPos * clipDurationPct
        safeStartPct == Max(0, Min(1000000, absolutePosPct))
    IN  [relativeGrainPos |-> relativeGrainPos,
         safeStartPct |-> safeStartPct,
         shifted |-> FALSE,
         offsetSeconds |-> (safeStartPct \div 1000) * sampleDuration
                            + ((safeStartPct % 1000) * sampleDuration) \div 1000,
         duration |-> p.grainSize]

\* Position logic of one grain: the arguments 'offsetSeconds' and 'duration' of
\* src.start(now, offsetSeconds, duration).
Place(p, clip, sampleDuration, r) ==
    LET u == PlaceUnshifted(p, clip, sampleDuration, r)
    IN  IF u.offsetSeconds + 1000 * u.duration > 1000 * sampleDuration
        THEN [u EXCEPT !.shifted = TRUE,
                       !.offsetSeconds = 1000 * Max(0, sampleDuration - u.duration)]
        ELSE u

\* The playback rate without its floor.
FinalRateNoFloor(playbackRate, pitchSpread, pr) ==
    playbackRate * (10000 + pr * pitchSpread)

\* randomPitch = 1.0 + (Math.random() - 0.5) * 2 * p.pitchSpread and
\* finalRate = Math.max(0.1, voice.playbackRate * randomPitch): playbackRate and
\* pitchSpread in thousandths, the draw pr in tenths, the result in units of 1e-7.
FinalRate(playbackRate, pitchSpread, pr) ==
    Max(RateFloor, playbackRate * (10000 + pr * pitchSpread))

NoPlaced ==
    [p |-> DefaultParams, clip |-> FullRange, sampleDuration |-> 0, r |-> 0,
     pr |-> 0, note |-> BaseNote, finalRate |-> 0,
     done |-> FALSE, out |-> [relativeGrainPos |-> 0, safeStartPct |-> 0,
                              shifted |-> FALSE, offsetSeconds |-> 0, duration |-> 0]]

\* scheduleGrains without its guard on the sample.
ScheduleGrainsUnguarded(S, cl) ==
    IF ~S.ctx
    THEN S
    ELSE LET r == SlotLoop(S.notes, S.ngt, {}, S.clock, S.params, cl.playing)
         IN  [S EXCEPT !.notes = r.notes, !.ngt = r.ngt, !.timer = "id",
                       !.frames = Request(S.frames, cl),
                       !.out = {Emit(v, S.params, S.clipRef) : v \in r.out}]

\* One call of scheduleGrains with the closure cl = [playing, buf] of the render
\* that created it (audioGraphRef is set together with audioContext).
ScheduleGrains(S, cl) ==
    IF ~S.ctx \/ ~cl.buf
    THEN S
    ELSE LET r == SlotLoop(S.notes, S.ngt, {}, S.clock, S.params, cl.playing)
         IN  [S EXCEPT !.notes = r.notes, !.ngt = r.ngt, !.timer = "id",
                       !.frames = Request(S.frames, cl),
                       !.out = {Emit(v, S.params, S.clipRef) : v \in r.out}]

(***************************************************************************)
(* The start/stop effect: cleanup of the previous run, then the body.      *)
(***************************************************************************)
\* A cleanup that forgets the frame's id instead of cancelling the frame.
EffectCleanupForget(S) ==
    IF S.timer # "null" THEN [S EXCEPT !.timer = "null"] ELSE S

\* return () => { if (timerIdRef.current) cancelAnimationFrame(timerIdRef.current); }
EffectCleanup(S) ==
    IF S.timer # "null" THEN [S EXCEPT !.frames = Cancel(S.frames)] ELSE S

EffectBody(S) ==
    LET hasNotes == DOMAIN S.notes # {}
    IN  IF (S.playing \/ hasNotes) /\ S.ctx
        THEN LET ngt1 == IF S.ngt < S.clock - ResyncLimit THEN S.clock ELSE S.ngt
             IN  IF S.timer = "null"
                 THEN [S EXCEPT !.ngt = Max(ngt1, S.clock),
                                !.timer = "id",
                                !.frames = Request(S.frames,
                                    [playing |-> S.playing, buf |-> S.buf])]
                 ELSE [S EXCEPT !.ngt = ngt1]
        ELSE IF ~S.playing /\ ~hasNotes /\ S.timer # "null"
             THEN [S EXCEPT !.frames = Cancel(S.frames), !.timer = "null"]
             ELSE S

\* The re-render after a change of isPlaying, activeNotesUI, scheduleGrains or
\* audioContext; it also runs the effect that copies sampleRange into its ref.
Effect(S) == [EffectBody(EffectCleanup(S)) EXCEPT !.due = "none", !.clipRef = S.clip]

\* What the pending re-render is due to: "none"; "noteOffMissing" when nothing but
\* handleNoteOff calls for absent notes asked for it; "other" otherwise.
AddDue(S, cause) ==
    [S EXCEPT !.due = IF cause = "noteOffMissing" /\ @ \in {"none", "noteOffMissing"}
                      THEN "noteOffMissing" ELSE "other"]

\* A discrete event (a click, a key, a pointer event on the on-screen keyboard)
\* is re-rendered, effects included, before anything else runs; a MIDI message
\* or the decoder's completion leaves the re-render pending.
Sync(src) == src # "midi"
Flush(S, src) == IF Sync(src) /\ S.due # "none" THEN Effect(S) ELSE S

\* No re-render is pending.
Quiet == effectDue = "none"

NoLast == [op |-> "other", note |-> 0, velocity |-> 0, was |-> "-"]

NoProbe ==
    [p |-> DefaultParams, data |-> NoEntry, now |-> 0, gain |-> Frac(0, 1),
     prev |-> Frac(0, 1), op |-> "none"]

WasOf(note) ==
    IF note \notin DOMAIN activeNotes THEN "absent"
    ELSE IF activeNotes[note].isReleased THEN "released" ELSE "held"

Step(S, lst, counted) ==
    /\ counted => events < MaxEvents
    /\ Len(S.frames) <= MaxFrames
    /\ clock' = S.clock
    /\ audioContext' = S.ctx
    /\ audioBuffer' = S.buf
    /\ uploading' = S.upl
    /\ isPlaying' = S.playing
    /\ activeNotes' = S.notes
    /\ activeNotesUI' = S.ui
    /\ paramsRef' = S.params
    /\ nextGrainTime' = S.ngt
    /\ timerIdRef' = S.timer
    /\ frames' = S.frames
    /\ effectDue' = S.due
    /\ grains' = S.out
    /\ events' = IF counted THEN events + 1 ELSE events
    /\ last' = lst
    /\ probe' = probe
    /\ sampleRange' = S.clip
    /\ sampleRangeRef' = S.clipRef
    /\ placed' = placed
    /\ params' = S.pstate
    /\ fx' = S.fx
    /\ presetClosure' = S.closure
    /\ dragMode' = dragMode

(***************************************************************************)
(* Initial state: the component is mounted, nothing was clicked.           *)
(***************************************************************************)
Init ==
    /\ clock = 0
    /\ audioContext = FALSE
    /\ audioBuffer = FALSE
    /\ uploading = FALSE
    /\ isPlaying = FALSE
    /\ activeNotes = << >>
    /\ activeNotesUI = << >>
    /\ paramsRef = DefaultParams
    /\ nextGrainTime = 0
    /\ timerIdRef = "null"
    /\ frames = << >>
    /\ effectDue = "none"
    /\ grains = {}
    /\ events = 0
    /\ last = NoLast
    /\ probe = NoProbe
    /\ sampleRange = FullRange
    /\ sampleRangeRef = FullRange
    /\ placed = NoPlaced
    /\ params = DefaultParams
    /\ fx = NoFx
    /\ presetClosure = NoClosure
    /\ dragMode = "none"

(***************************************************************************)
(* Handlers.                                                               *)
(***************************************************************************)
\* initAudio (the first click on the document): setAudioContext(ctx).
InitAudio ==
    /\ Quiet
    /\ ~audioContext
    /\ Step(FxEffect(Effect([Cur EXCEPT !.ctx = TRUE])), NoLast, FALSE)

\* The audio clock advances.
Advance(d) ==
    /\ Quiet
    /\ audioContext
    /\ clock + d <= MaxClock
    /\ Step([Cur EXCEPT !.clock = clock + d], NoLast, FALSE)

\* handleNoteOn(note, velocity).  src = "ui": the on-screen keyboard, whose
\* handler belongs to the latest render; src = "key" or "midi": the computer
\* keyboard and MIDI listeners, registered when audioContext last changed, whose
\* scheduleGrains still closes over audioBuffer = null and isPlaying = false.
NoteOn(S, note, velocity, src) ==
    LET startTime == IF S.ctx THEN S.clock ELSE 0
        old == IF note \in DOMAIN S.notes THEN S.notes[note] ELSE NoEntry
        shown == note \in SeqElems(S.ui)
        S1 == [S EXCEPT !.notes = MapSet(S.notes, note, NoteOnEntry(old, velocity, startTime)),
                        !.ui = IF shown THEN @ ELSE Append(@, note)]
        S2 == IF shown THEN S1 ELSE AddDue(S1, "noteOn")
        cl == IF src = "ui" THEN [playing |-> S.playing, buf |-> S.buf]
              ELSE [playing |-> FALSE, buf |-> FALSE]
    IN  IF S.timer = "null" /\ S.ctx
        THEN ScheduleGrains([S2 EXCEPT !.ngt = S.clock], cl)
        ELSE S2

HandleNoteOn(note, velocity, src) ==
    /\ Sync(src) => Quiet
    /\ Step(Flush(NoteOn(Cur, note, velocity, src), src),
            [op |-> "noteOn", note |-> note, velocity |-> velocity, was |-> WasOf(note)],
            TRUE)

\* handleNoteOff(note)
NoteOff(S, note) ==
    LET noteData == IF note \in DOMAIN S.notes THEN S.notes[note] ELSE NoEntry
        S1 == IF note \in DOMAIN S.notes /\ S.ctx
              THEN [S EXCEPT !.notes = MapSet(S.notes, note, NoteOffEntry(noteData, S.clock))]
              ELSE [S EXCEPT !.notes = MapDelete(S.notes, note)]
    IN  AddDue([S1 EXCEPT !.ui = SeqFilter(@, note)],
               IF note \in DOMAIN S.notes THEN "noteOff" ELSE "noteOffMissing")

HandleNoteOff(note, src) ==
    /\ Sync(src) => Quiet
    /\ Step(Flush(NoteOff(Cur, note), src),
            [op |-> "noteOff", note |-> note, velocity |-> 0, was |-> WasOf(note)],
            TRUE)

\* The drone button: setIsPlaying(!isPlaying); the button is disabled without a sample.
ToggleDrone ==
    /\ Quiet
    /\ audioBuffer
    /\ Step(Effect([Cur EXCEPT !.playing = ~@]), NoLast, TRUE)

\* handleFileUpload up to its first await: setIsPlaying(false).
HandleFileUpload ==
    /\ Quiet
    /\ audioContext
    /\ ~uploading
    /\ Step(IF isPlaying THEN Effect([Cur EXCEPT !.upl = TRUE, !.playing = FALSE])
            ELSE [Cur EXCEPT !.upl = TRUE],
            NoLast, TRUE)

\* handleFileUpload after decodeAudioData: setAudioBuffer(decodedBuffer) on success.
DecodeDone(ok) ==
    /\ uploading
    /\ Step(IF ok THEN AddDue([Cur EXCEPT !.upl = FALSE, !.buf = TRUE, !.clip = FullRange],
                          "audioBuffer")
            ELSE [Cur EXCEPT !.upl = FALSE],
            NoLast, FALSE)

\* onSampleRangeChange = setSampleRange, from a drag in the waveform editor; the
\* re-render copies the new window into sampleRangeRef.
SetSampleRange(range) ==
    /\ Quiet
    /\ sampleRange # range
    /\ Step([Cur EXCEPT !.clip = range, !.clipRef = range], NoLast, TRUE)

\* updateParam(key, value) from a control, and the re-render it causes.
UpdateParam(key, value) ==
    /\ Quiet
    /\ paramsRef[key] # value
    /\ Step(FxEffect([Cur EXCEPT !.pstate = NewParams(params, key, value),
                                 !.params = NewParams(params, key, value)]),
            NoLast, TRUE)

\* handleAIPresets up to its await: the closure of this render waits for the preset.
HandleAIPresets ==
    /\ Quiet
    /\ ~presetClosure.pending
    /\ Step([Cur EXCEPT !.closure = [pending |-> TRUE, params |-> params]], NoLast, TRUE)

\* handleAIPresets after its await: thirteen updateParam calls, batched into one
\* re-render.
PresetDone(preset) ==
    /\ Quiet
    /\ presetClosure.pending
    /\ LET new == PresetCalls(presetClosure.params, params, preset, 1)
       IN  Step(FxEffect([Cur EXCEPT !.pstate = new, !.params = new,
                                     !.closure = NoClosure]),
                NoLast, FALSE)

\* generateSynthPreset throws: the catch branch sets no parameter.
PresetFailed ==
    /\ Quiet
    /\ presetClosure.pending
    /\ Step([Cur EXCEPT !.closure = NoClosure], NoLast, FALSE)

(***************************************************************************)
(* The animation frame fires: the requested scheduleGrains runs.           *)
(***************************************************************************)
Frame(i) ==
    /\ i \in 1..Len(frames)
    /\ LET S == ScheduleGrains([Cur EXCEPT !.frames = RemoveAt(frames, i)],
                               [playing |-> frames[i].playing, buf |-> frames[i].buf])
       IN  Step(S,
                [NoLast EXCEPT
                    !.op = IF audioContext /\ frames[i].buf THEN "tick" ELSE "frame",
                    !.was = IF DOMAIN S.notes # DOMAIN activeNotes THEN "swept" ELSE "-"],
                FALSE)

\* The pending re-render happens.
RunEffect ==
    /\ ~Quiet
    /\ Step(Effect(Cur), [NoLast EXCEPT !.op = "effect"], FALSE)

Next ==
    \/ InitAudio
    \/ \E d \in ClockSteps : Advance(d)
    \/ \E n \in Notes, src \in {"ui", "key"} : HandleNoteOn(n, DefaultVelocity, src)
    \/ \E n \in Notes, v \in MidiVelocities : HandleNoteOn(n, v, "midi")
    \/ \E n \in Notes, src \in {"ui", "key", "midi"} : HandleNoteOff(n, src)
    \/ ToggleDrone
    \/ HandleFileUpload
    \/ \E ok \in BOOLEAN : DecodeDone(ok)
    \/ \E range \in ClipWindows : SetSampleRange(range)
    \/ \E v \in ReleaseValues : UpdateParam("release", v)
    \/ \E v \in SustainLevels : UpdateParam("sustain", v)
    \/ \E i \in 1..MaxFrames : Frame(i)
    \/ RunEffect

Spec == Init /\ [][Next]_vars

(***************************************************************************)
(* The envelope of one registry entry, slot by slot.  The entry is made by  *)
(* handleNoteOn, released by handleNoteOff, and evaluated by the envelope  *)
(* code of scheduleGrains at slot times one millisecond apart, under ADSR  *)
(* settings from the ranges GranularParams documents (attack, decay 0..2 s,*)
(* sustain 0..1, release 0..5 s); the Math.max(0.001, ...) floors of the   *)
(* envelope code are there for the value 0.                                *)
(***************************************************************************)
AttackValues == {0, 100}
DecayValues == {0, 200}
SustainValues == {0, 800, 1000}
EnvReleaseValues == {0, 500}
StartTimes == {0, 20}
NoteOffTimes == {0, 50, 200, 500}

EnvParams ==
    {[DefaultParams EXCEPT !.attack = a, !.decay = d, !.sustain = s, !.release = r] :
        a \in AttackValues, d \in DecayValues, s \in SustainValues, r \in EnvReleaseValues}

EnvInit ==
    /\ clock = 0
    /\ audioContext = TRUE
    /\ audioBuffer = TRUE
    /\ uploading = FALSE
    /\ isPlaying = FALSE
    /\ activeNotes = << >>
    /\ activeNotesUI = << >>
    /\ paramsRef = DefaultParams
    /\ nextGrainTime = 0
    /\ timerIdRef = "null"
    /\ frames = << >>
    /\ effectDue = "none"
    /\ grains = {}
    /\ events = 0
    /\ last = NoLast
    /\ sampleRange = FullRange
    /\ sampleRangeRef = FullRange
    /\ placed = NoPlaced
    /\ params = DefaultParams
    /\ fx = NoFx
    /\ presetClosure = NoClosure
    /\ dragMode = "none"
    /\ \E p \in EnvParams, st \in StartTimes :
          LET data == NoteOnEntry(NoEntry, DefaultVelocity, st)
          IN  probe = [p |-> p, data |-> data, now |-> 0, gain |-> EnvGain(data, 0, p),
                       prev |-> EnvGain(data, 0, p), op |-> "noteOn"]

EnvUnchanged ==
    UNCHANGED <<clock, audioContext, audioBuffer, uploading, isPlaying, activeNotes,
                activeNotesUI, paramsRef, nextGrainTime, timerIdRef, frames, effectDue,
                grains, events, last, sampleRange, sampleRangeRef, placed,
                params, fx, presetClosure, dragMode>>

\* The next slot, one millisecond later, evaluates the entry.
EnvSlot ==
    /\ probe.now < MaxEnvTime
    /\ probe' = [probe EXCEPT !.now = @ + 1,
                              !.prev = probe.gain,
                              !.gain = EnvGain(probe.data, probe.now + 1, probe.p),
                              !.op = "slot"]
    /\ EnvUnchanged

\* handleNoteOff at the slot's time; the slot is evaluated again.
EnvNoteOff ==
    /\ ~probe.data.isReleased
    /\ probe.now >= probe.data.startTime
    /\ probe.now \in NoteOffTimes
    /\ LET data == NoteOffEntry(probe.data, probe.now)
       IN  probe' = [probe EXCEPT !.data = data,
                                  !.prev = probe.gain,
                                  !.gain = EnvGain(data, probe.now, probe.p),
                                  !.op = "noteOff"]
    /\ EnvUnchanged

EnvNext == EnvSlot \/ EnvNoteOff

SpecEnv == EnvInit /\ [][EnvNext]_vars

(***************************************************************************)
(* The slot loop of a tick under any density: the drone is armed, note 48  *)
(* is held, a frame is pending, and the density the tick reads is drawn    *)
(* from a set that reaches below the spacing floor; the clock advances and *)
(* the frame fires in any order.                                           *)
(***************************************************************************)
TickDensities == {-10, 0, 5, 20, 50, 200}
TickSteps == {10, 30}
MaxTickClock == 60

TickInit ==
    /\ clock = 0
    /\ audioContext = TRUE
    /\ audioBuffer = TRUE
    /\ uploading = FALSE
    /\ isPlaying = TRUE
    /\ activeNotes = MapSet(<< >>, BaseNote, NoteOnEntry(NoEntry, DefaultVelocity, 0))
    /\ activeNotesUI = <<BaseNote>>
    /\ nextGrainTime = 0
    /\ timerIdRef = "id"
    /\ frames = Request(<< >>, [playing |-> TRUE, buf |-> TRUE])
    /\ effectDue = "none"
    /\ grains = {}
    /\ events = 0
    /\ last = NoLast
    /\ probe = NoProbe
    /\ sampleRange = FullRange
    /\ sampleRangeRef = FullRange
    /\ placed = NoPlaced
    /\ fx = NoFx
    /\ presetClosure = NoClosure
    /\ dragMode = "none"
    /\ \E d \in TickDensities :
          /\ params = [DefaultParams EXCEPT !.density = d]
          /\ paramsRef = [DefaultParams EXCEPT !.density = d]

\* The audio clock advances a little.
TickAdvance(d) ==
    /\ clock + d <= MaxTickClock
    /\ Advance(d)

TickNext ==
    \/ \E d \in TickSteps : TickAdvance(d)
    \/ \E i \in 1..MaxFrames : Frame(i)

SpecTick == TickInit /\ [][TickNext]_vars

(***************************************************************************)
(* The effect sends under parameter changes: the four effect knobs are      *)
(* turned within their ranges and presets arrive, before and after the     *)
(* first click has built the audio graph.                                  *)
(***************************************************************************)
FxKnob ==
    [delayTime |-> {10, 1000}, delayFeedback |-> {0, 950},
     delayWet |-> {1000}, reverbWet |-> {1000}]

PresetLow ==
    [grainSize |-> 10, density |-> 10, spread |-> 0, pitch |-> 500, pitchSpread |-> 0,
     attack |-> 0, decay |-> 0, sustain |-> 0, release |-> 0,
     delayTime |-> 0, delayFeedback |-> 0, delayWet |-> 1000, reverbWet |-> 500]

PresetHigh ==
    [grainSize |-> 500, density |-> 500, spread |-> 1000, pitch |-> 2000,
     pitchSpread |-> 1000, attack |-> 2000, decay |-> 2000, sustain |-> 1000,
     release |-> 5000, delayTime |-> 1000, delayFeedback |-> 950, delayWet |-> 0,
     reverbWet |-> 0]

\* The preset is parsed JSON that nothing validates: its numbers need not respect
\* the ranges the response schema describes.
PresetWild ==
    [grainSize |-> 2000, density |-> 0, spread |-> 1000, pitch |-> 0,
     pitchSpread |-> 1000, attack |-> 0, decay |-> 0, sustain |-> 1500,
     release |-> 0, delayTime |-> 0, delayFeedback |-> 1000, delayWet |-> 1000,
     reverbWet |-> 1500]

Presets == {PresetLow, PresetHigh, PresetWild}

\* The [min, max] the controls of the panel give each parameter.
ParamRange ==
    [position |-> <<0, 1000>>, spread |-> <<0, 500>>, grainSize |-> <<10, 500>>,
     density |-> <<10, 200>>, pitch |-> <<100, 4000>>, pitchSpread |-> <<0, 1000>>,
     volume |-> <<0, 1000>>, attack |-> <<10, 2000>>, decay |-> <<10, 2000>>,
     sustain |-> <<0, 1000>>, release |-> <<100, 5000>>, delayTime |-> <<10, 1000>>,
     delayFeedback |-> <<0, 950>>, delayWet |-> <<0, 1000>>, reverbWet |-> <<0, 1000>>]

FxNext ==
    \/ InitAudio
    \/ \E key \in FxControls : \E v \in FxKnob[key] : UpdateParam(key, v)
    \/ HandleAIPresets
    \/ \E preset \in Presets : PresetDone(preset)
    \/ PresetFailed

SpecFx == Init /\ [][FxNext]_vars

(***************************************************************************)
(* The placement of grains, draw by draw: a sample of some duration is      *)
(* loaded, position, spread, grainSize and the clip window are set within  *)
(* the ranges GranularParams documents (spread up to 1, beyond the knob's  *)
(* 0.5), and each step places one more grain with a fresh random draw from *)
(* [-1, 1], the end point 1 included although Math.random() stays below it.*)
(***************************************************************************)
Positions == {0, 500, 950}
Spreads == {0, 100, 500, 1000}
GrainSizes == {100, 500}
SampleDurations == {50, 1000, 10000}
PlaceWindows == {<<0, 1000>>, <<250, 750>>, <<900, 1000>>}
RandomDraws == {-10, -5, 0, 9, 10}
Pitches == {100, 1000, 4000}
PitchSpreads == {0, 1000}

PlaceInit ==
    /\ clock = 0
    /\ audioContext = TRUE
    /\ audioBuffer = TRUE
    /\ uploading = FALSE
    /\ isPlaying = FALSE
    /\ activeNotes = << >>
    /\ activeNotesUI = << >>
    /\ paramsRef = DefaultParams
    /\ nextGrainTime = 0
    /\ timerIdRef = "null"
    /\ frames = << >>
    /\ effectDue = "none"
    /\ grains = {}
    /\ events = 0
    /\ last = NoLast
    /\ probe = NoProbe
    /\ params = DefaultParams
    /\ fx = NoFx
    /\ presetClosure = NoClosure
    /\ dragMode = "none"
    /\ \E pos \in Positions, sp \in Spreads, gs \in GrainSizes,
          d \in SampleDurations, w \in PlaceWindows,
          pitch \in Pitches, ps \in PitchSpreads :
            /\ sampleRange = w
            /\ sampleRangeRef = w
            /\ placed = [NoPlaced EXCEPT !.p.position = pos, !.p.spread = sp,
                                         !.p.grainSize = gs, !.clip = w,
                                         !.sampleDuration = d,
                                         !.p.pitch = pitch, !.p.pitchSpread = ps]

\* One pass of notesToPlay.forEach, for the voice of a registry note: the grain
\* is placed with the draw r and its rate is detuned with the draw pr.
PlaceGrain(r, pr, note) ==
    /\ placed' = [placed EXCEPT !.r = r, !.pr = pr, !.note = note, !.done = TRUE,
                                !.out = Place(placed.p, placed.clip,
                                              placed.sampleDuration, r),
                                !.finalRate = FinalRate(Rate(placed.p, note),
                                                        placed.p.pitchSpread, pr)]
    /\ UNCHANGED <<clock, audioContext, audioBuffer, uploading, isPlaying, activeNotes,
                   activeNotesUI, paramsRef, nextGrainTime, timerIdRef, frames,
                   effectDue, grains, events, last, probe, sampleRange,
                   sampleRangeRef, params, fx, presetClosure, dragMode>>

PlaceNext == \E r \in RandomDraws, pr \in RandomDraws, note \in Notes : PlaceGrain(r, pr, note)

SpecPlace == PlaceInit /\ [][PlaceNext]_vars

(***************************************************************************)
(* Clip editing on the minimap (Waveform.tsx).  The clip window is kept in *)
(* units fine enough for every width / 2 of a run to be exact: a           *)
(* thousandth is 2^MaxEvents units, and each drag that writes the window   *)
(* is counted in events.  The handlers read the sampleRange prop of the    *)
(* last render, which is the pair that the effect of App line 345 stores   *)
(* in sampleRangeRef; mousedown, mouseup, touchstart and the file input's  *)
(* change are discrete events, after which React re-renders at once, while *)
(* mousemove, touchmove and the decoder's completion leave the re-render   *)
(* pending.                                                                *)
(***************************************************************************)
ClipUnit == 2 ^ MaxEvents
ClipOne == 1000 * ClipUnit
\* tol = 0.02
Tolerance == 20 * ClipUnit
\* the 0.01 of the handle drags
MinWidth == 10 * ClipUnit
\* Pointer positions on the minimap, as fractions of its width.
ThumbXs == {x * ClipUnit : x \in {0, 5, 15, 300, 500, 700, 995, 1000}}

Abs(x) == IF x < 0 THEN -x ELSE x

ClipInit ==
    /\ clock = 0
    /\ audioContext = TRUE
    /\ audioBuffer = TRUE
    /\ uploading = FALSE
    /\ isPlaying = FALSE
    /\ activeNotes = << >>
    /\ activeNotesUI = << >>
    /\ paramsRef = DefaultParams
    /\ nextGrainTime = 0
    /\ timerIdRef = "null"
    /\ frames = << >>
    /\ effectDue = "none"
    /\ grains = {}
    /\ events = 0
    /\ last = NoLast
    /\ probe = NoProbe
    /\ sampleRange = <<0, ClipOne>>
    /\ sampleRangeRef = <<0, ClipOne>>
    /\ placed = NoPlaced
    /\ params = DefaultParams
    /\ fx = NoFx
    /\ presetClosure = NoClosure
    /\ dragMode = "none"

ClipUnchanged ==
    UNCHANGED <<clock, audioContext, audioBuffer, isPlaying, activeNotes,
                activeNotesUI, paramsRef, nextGrainTime, timerIdRef, frames,
                effectDue, grains, probe, placed, params, fx, presetClosure>>

\* handleThumbDown with the pointer at xPct (mousedown or touchstart).
ThumbDown(xPct) ==
    /\ dragMode' = LET start == sampleRange[1]
                       end == sampleRange[2]
                   IN  IF Abs(xPct - start) < Tolerance THEN "left"
                       ELSE IF Abs(xPct - end) < Tolerance THEN "right"
                       ELSE IF xPct > start /\ xPct < end THEN "move"
                       ELSE "none"
    /\ sampleRangeRef' = sampleRange
    /\ last' = [NoLast EXCEPT !.op = "thumbDown"]
    /\ UNCHANGED <<sampleRange, events, uploading>>
    /\ ClipUnchanged

\* The pair that a drag hands to onSampleRangeChange: range is the sampleRange
\* prop, mode the dragMode (not "none"), xPct the pointer position after its
\* clamp to [0, 1].
Dragged(range, mode, xPct) ==
    LET start == range[1]
        end == range[2]
        width == end - start
    IN  IF mode = "left" THEN <<Min(xPct, end - MinWidth), end>>
        ELSE IF mode = "right" THEN <<start, Max(xPct, start + MinWidth)>>
        ELSE LET halfWidth == width \div 2
                 newStart == xPct - halfWidth
                 newEnd == xPct + halfWidth
                 s1 == IF newStart < 0 THEN 0 ELSE newStart
                 e1 == IF newStart < 0 THEN width ELSE newEnd
             IN  IF e1 > ClipOne THEN <<ClipOne - width, ClipOne>> ELSE <<s1, e1>>

Drag(xPct, op) ==
    /\ dragMode # "none"
    /\ events < MaxEvents
    /\ sampleRange' = Dragged(sampleRangeRef, dragMode, Max(0, Min(ClipOne, xPct)))
    /\ events' = events + 1
    /\ last' = [NoLast EXCEPT !.op = op]
    /\ UNCHANGED <<sampleRangeRef, dragMode, uploading>>
    /\ ClipUnchanged

\* handleThumbMouseMove with the primary button held (e.buttons === 1).
ThumbMouseMove(xPct) == Drag(xPct, "mousemove")

\* handleThumbTouchMove.
ThumbTouchMove(xPct) == Drag(xPct, "touchmove")

\* onMouseUp, onMouseLeave, onTouchEnd: setDragMode('none').
ThumbUp ==
    /\ dragMode # "none"
    /\ dragMode' = "none"
    /\ sampleRangeRef' = sampleRange
    /\ last' = [NoLast EXCEPT !.op = "thumbUp"]
    /\ UNCHANGED <<sampleRange, events, uploading>>
    /\ ClipUnchanged

\* handleFileUpload up to its awaits (the file input's change event).
ClipUpload ==
    /\ ~uploading
    /\ uploading' = TRUE
    /\ sampleRangeRef' = sampleRange
    /\ last' = [NoLast EXCEPT !.op = "upload"]
    /\ UNCHANGED <<sampleRange, events, dragMode>>
    /\ ClipUnchanged

\* The decoder succeeded: setSampleRange([0, 1]).
ClipDecoded ==
    /\ uploading
    /\ uploading' = FALSE
    /\ sampleRange' = <<0, ClipOne>>
    /\ last' = [NoLast EXCEPT !.op = "decoded"]
    /\ UNCHANGED <<sampleRangeRef, events, dragMode>>
    /\ ClipUnchanged

\* The pending re-render: Waveform gets the new sampleRange prop.
ClipRender ==
    /\ sampleRangeRef # sampleRange
    /\ sampleRangeRef' = sampleRange
    /\ last' = [NoLast EXCEPT !.op = "render"]
    /\ UNCHANGED <<sampleRange, events, dragMode, uploading>>
    /\ ClipUnchanged

ClipNext ==
    \/ \E xPct \in ThumbXs : ThumbDown(xPct)
    \/ \E xPct \in ThumbXs : ThumbMouseMove(xPct)
    \/ \E xPct \in ThumbXs : ThumbTouchMove(xPct)
    \/ ThumbUp
    \/ ClipUpload
    \/ ClipDecoded
    \/ ClipRender

SpecClip == ClipInit /\ [][ClipNext]_vars

(***************************************************************************)
(* Voice registry claims.                                                  *)
(***************************************************************************)
\* The loop is running: a requested animation frame was not cancelled, and its
\* scheduleGrains has a sample, so that it will process slots and re-arm itself.
LoopRunning == \E i \in 1..Len(frames) : frames[i].buf

\* C1: after noteOn(note, velocity) at clock time t the registry holds the entry
\* {velocity, startTime = t, isReleased = false, no releaseTime} for that note,
\* whether the note was absent, held or releasing before the call.
C1_NoteOnEntry ==
    last.op = "noteOn" =>
        /\ last.note \in DOMAIN activeNotes
        /\ activeNotes[last.note] =
             [velocity |-> last.velocity, startTime |-> clock,
              isReleased |-> FALSE, releaseTime |-> Undefined]

\* A note in its release phase was re-triggered at a clock time after 0.
C1_Witness ==
    /\ last.op = "noteOn"
    /\ last.was = "released"
    /\ clock > 0
    /\ last.note \in DOMAIN activeNotes

\* C2 (as stated): noteOff of a note present in the registry leaves it there with
\* isReleased = true, releaseTime = t, and velocity and startTime unchanged.
C2_NoteOffKeeps ==
    [][\A n \in Notes :
         (last'.op = "noteOff" /\ last'.note = n /\ n \in DOMAIN activeNotes) =>
             /\ n \in DOMAIN activeNotes'
             /\ activeNotes'[n] =
                  [velocity |-> activeNotes[n].velocity,
                   startTime |-> activeNotes[n].startTime,
                   isReleased |-> TRUE, releaseTime |-> clock]]_vars

\* C2 (amended): the same, once the audio context exists.
C2_NoteOffKeepsWithContext ==
    [][\A n \in Notes :
         (last'.op = "noteOff" /\ last'.note = n /\ n \in DOMAIN activeNotes
            /\ audioContext) =>
             /\ n \in DOMAIN activeNotes'
             /\ activeNotes'[n] =
                  [velocity |-> activeNotes[n].velocity,
                   startTime |-> activeNotes[n].startTime,
                   isReleased |-> TRUE, releaseTime |-> clock]]_vars

\* A held note that started before was released at a later clock time.
C2_Witness ==
    /\ last.op = "noteOff"
    /\ last.was = "held"
    /\ audioContext
    /\ last.note \in DOMAIN activeNotes
    /\ activeNotes[last.note].isReleased
    /\ activeNotes[last.note].startTime < activeNotes[last.note].releaseTime

\* C3: noteOff for a note that is not in the registry is a no-op: neither the
\* handler nor the re-render it alone causes changes the registry, nextGrainTime
\* or whether a tick is pending.
C3_NoteOffMissingNoOp ==
    [][/\ (last'.op = "noteOff" /\ last'.was = "absent") =>
             /\ activeNotes' = activeNotes
             /\ nextGrainTime' = nextGrainTime
             /\ LoopRunning' = LoopRunning
       /\ (last'.op = "effect" /\ effectDue = "noteOffMissing") =>
             /\ activeNotes' = activeNotes
             /\ nextGrainTime' = nextGrainTime
             /\ LoopRunning' = LoopRunning]_vars

\* C4: noteOff is idempotent: a second noteOff on a released note leaves its
\* NoteState (in particular its releaseTime) as the first noteOff set it.
C4_NoteOffIdempotent ==
    [][\A n \in Notes :
         (last'.op = "noteOff" /\ last'.note = n /\ last'.was = "released") =>
             /\ n \in DOMAIN activeNotes'
             /\ activeNotes'[n] = activeNotes[n]]_vars

\* C5: for every registry entry, releaseTime is set iff isReleased is true.
C5_ReleaseTimeIffReleased ==
    \A n \in DOMAIN activeNotes :
        (activeNotes[n].releaseTime # Undefined) <=> activeNotes[n].isReleased

\* After a scheduler tick the registry holds a releasing and a held note.
C5_Witness ==
    /\ last.op = "tick"
    /\ \E n \in DOMAIN activeNotes : activeNotes[n].isReleased
    /\ \E n \in DOMAIN activeNotes : ~activeNotes[n].isReleased

\* C6: after a tick has processed a slot at time now, the registry holds no note
\* with isReleased and now > releaseTime + release, whatever releaseTime is, and
\* no grain of that tick belongs to a note that was expired at the grain's slot.
C6_NoExpiredAfterSlot ==
    [][(last'.op = "tick" /\ nextGrainTime' > nextGrainTime) =>
         LET slot == nextGrainTime' - Max(MinSpacing, paramsRef.density)
         IN  /\ \A n \in DOMAIN activeNotes' :
                   ~(/\ activeNotes'[n].isReleased
                     /\ slot > activeNotes'[n].releaseTime + paramsRef.release)
             /\ \A g \in grains' :
                   ~g.isDrone =>
                      ~(/\ activeNotes[g.note].isReleased
                        /\ g.time > activeNotes[g.note].releaseTime + paramsRef.release)
      ]_vars

\* C7: a tick that begins with the drone disarmed, the registry empty and no
\* re-render due does not re-arm the loop.
C7_LoopStopsWhenIdle ==
    [][(/\ last'.op = "tick"
        /\ ~isPlaying
        /\ DOMAIN activeNotes = {}
        /\ effectDue = "none") => ~LoopRunning']_vars

(***************************************************************************)
(* Envelope claims.                                                        *)
(***************************************************************************)
\* Comparison of two gains (denominators are positive).
FracLeq(a, b) == a.num * b.den <= b.num * a.den
FracEq(a, b) == a.num * b.den = b.num * a.den

\* C8: every envelope gain the scheduler computes for a registry entry lies in
\* [0,1], also at slots earlier than the note's startTime or releaseTime.
C8_GainInUnitInterval ==
    \A g \in grains :
        ~g.isDrone => FracLeq(Frac(0, 1), g.env) /\ FracLeq(g.env, Frac(1000, 1))

\* The phase of the entry at slot time t.
PhaseAt(data, t, p) ==
    LET st == Max(0, t - data.startTime)
    IN  IF data.isReleased THEN "release"
        ELSE IF st < p.attack THEN "attack"
        ELSE IF st < p.attack + p.decay THEN "decay"
        ELSE "sustain"

CeilDiv(a, b) == (a + b - 1) \div b

\* The steepest slope of the attack and decay segments, in thousandths per
\* millisecond, rounded up: what a gain may change by between two slots one
\* millisecond apart when it has no jump.
MaxSlope(p) ==
    Max(IF p.attack > 0 THEN CeilDiv(1000, p.attack) ELSE 0,
        IF p.decay > 0 THEN CeilDiv(1000 - p.sustain, p.decay) ELSE 0)

FracDistLeq(a, b, bound) ==
    /\ a.num * b.den - b.num * a.den <= bound * a.den * b.den
    /\ b.num * a.den - a.num * b.den <= bound * a.den * b.den

\* The shape of the envelope between the previous slot and this one.
EnvelopeShape ==
    LET before == PhaseAt(probe.data, probe.now - 1, probe.p)
        after == PhaseAt(probe.data, probe.now, probe.p)
    IN  /\ after = "attack" => FracLeq(probe.prev, probe.gain)
        /\ (before = "decay" /\ after = "decay") => FracLeq(probe.gain, probe.prev)
        /\ after = "sustain" => FracEq(probe.gain, Frac(probe.p.sustain, 1))
        /\ after = "release" =>
              /\ FracLeq(probe.gain, probe.prev)
              /\ FracLeq(Frac(0, 1), probe.gain)
              /\ probe.now >= probe.data.releaseTime + probe.p.release =>
                    probe.gain.num = 0
        /\ after # "release" => FracDistLeq(probe.prev, probe.gain, MaxSlope(probe.p))

RefGain(note, now, adsr) ==
    IF ~note.isReleased
    THEN LET t == Max(0, now - note.startTime)
         IN  IF t < adsr.attack
             THEN Frac(1000 * t, Max(Epsilon, adsr.attack))
             ELSE IF t < adsr.attack + adsr.decay
                  THEN Frac(1000 * Max(Epsilon, adsr.decay)
                              - (1000 - adsr.sustain) * (t - adsr.attack),
                            Max(Epsilon, adsr.decay))
                  ELSE Frac(adsr.sustain, 1)
    ELSE LET tr == now - note.releaseTime
         IN  IF tr < adsr.release
             THEN Frac(adsr.sustain * (Max(Epsilon, adsr.release) - tr),
                       Max(Epsilon, adsr.release))
             ELSE Frac(0, 1)

\* C10: the gain equals the reference at every slot; with attack 0.1, decay 0.2,
\* sustain 0.8, release 0.5 it is 0.5 at 0.05 s, 0.9 at 0.2 s, 0.8 at 0.5 s and
\* 0.4 at 0.25 s after a release; at the instant of release it equals sustain.
C10_EqualsReference ==
    /\ FracEq(probe.gain, RefGain(probe.data, probe.now, probe.p))
    /\ (probe.op # "none" /\ probe.p = DefaultParams /\ probe.data.startTime = 0) =>
          /\ (~probe.data.isReleased /\ probe.now = 50) => FracEq(probe.gain, Frac(500, 1))
          /\ (~probe.data.isReleased /\ probe.now = 200) => FracEq(probe.gain, Frac(900, 1))
          /\ (~probe.data.isReleased /\ probe.now = 500) => FracEq(probe.gain, Frac(800, 1))
          /\ (probe.data.isReleased /\ probe.data.releaseTime = 500 /\ probe.now = 750) =>
                FracEq(probe.gain, Frac(400, 1))
    /\ (probe.data.isReleased /\ probe.now = probe.data.releaseTime) =>
          FracEq(probe.gain, Frac(probe.p.sustain, 1))

(***************************************************************************)
(* Emission claims.                                                        *)
(***************************************************************************)
\* C11: a note released at the instant it was started still sounds its release
\* tail: after the noteOff, with a sample loaded and the tail not over (the
\* reference gain at the cursor is above the silence threshold), a tick is
\* pending or a re-render is due; and no grain of a released note is emitted at a slot
\* release seconds or more after its noteOff.
C11_ReleaseTail ==
    /\ \A n \in DOMAIN activeNotes :
          (/\ audioBuffer
           /\ Quiet
           /\ last.op = "noteOff"
           /\ last.note = n
           /\ activeNotes[n].isReleased
           /\ activeNotes[n].releaseTime = activeNotes[n].startTime
           /\ Audible(RefGain(activeNotes[n], Max(clock, nextGrainTime), paramsRef)))
             => LoopRunning
    /\ \A g \in grains :
          (/\ ~g.isDrone
           /\ g.note \in DOMAIN activeNotes
           /\ activeNotes[g.note].isReleased)
             => g.time < activeNotes[g.note].releaseTime + paramsRef.release

\* The slots a tick step processes.
TickSlots ==
    {t \in nextGrainTime..(nextGrainTime' - 1) :
        (t - nextGrainTime) % Max(MinSpacing, paramsRef.density) = 0}

\* C12: at every slot of a tick, a registry voice emits a grain iff its envelope
\* gain at that slot exceeds the silence threshold; a voice below the threshold
\* emits nothing and, unless its release has elapsed, stays in the registry.
C12_GrainIffAboveThreshold ==
    [][last'.op = "tick" =>
         \A n \in DOMAIN activeNotes :
            /\ \A t \in TickSlots :
                  (\E g \in grains' : ~g.isDrone /\ g.note = n /\ g.time = t)
                    <=> ~FracLeq(EnvGain(activeNotes[n], t, paramsRef),
                                 Frac(SilenceThreshold, 1))
            /\ ~activeNotes[n].isReleased => n \in DOMAIN activeNotes'
      ]_vars

\* A tick gave a held note with sustain = 0 grains during its attack and decay and
\* none at a slot after them, and the note is still in the registry.
C12_Witness ==
    /\ last.op = "tick"
    /\ paramsRef.sustain = 0
    /\ \E n \in DOMAIN activeNotes :
          LET ended == activeNotes[n].startTime + paramsRef.attack + paramsRef.decay
          IN  /\ ~activeNotes[n].isReleased
              /\ nextGrainTime > ended + Max(MinSpacing, paramsRef.density)
              /\ \E g \in grains : ~g.isDrone /\ g.note = n /\ g.time < ended
              /\ ~\E g \in grains : ~g.isDrone /\ g.note = n /\ g.time >= ended

\* C13: at every slot of a tick, the drone (when armed) contributes exactly one
\* grain with playbackRate = pitch and gain 1.0 whatever the registry holds, every
\* registry voice above the threshold contributes exactly one grain with gain =
\* velocity * envelope gain, and there are no other grains.
C13_GrainsPerSlot ==
    [][last'.op = "tick" =>
         \A t \in TickSlots :
            LET at == {g \in grains' : g.time = t}
                audible == {n \in DOMAIN activeNotes :
                               ~FracLeq(EnvGain(activeNotes[n], t, paramsRef),
                                        Frac(SilenceThreshold, 1))}
            IN  /\ Cardinality({g \in at : g.isDrone}) = IF isPlaying THEN 1 ELSE 0
                /\ \A g \in at :
                      g.isDrone => g.rate = paramsRef.pitch /\ g.gain = Frac(1000, 1)
                /\ \A n \in audible :
                      /\ Cardinality({g \in at : ~g.isDrone /\ g.note = n}) = 1
                      /\ \A g \in at :
                            (~g.isDrone /\ g.note = n) =>
                               LET e == EnvGain(activeNotes[n], t, paramsRef)
                               IN  g.gain = Frac(activeNotes[n].velocity * e.num,
                                                 1000 * e.den)
                /\ Cardinality(at) =
                      (IF isPlaying THEN 1 ELSE 0) + Cardinality(audible)
      ]_vars

\* A tick with the drone armed emitted, at one slot, the drone's grain and a
\* registry voice's grain.
C13_Witness ==
    /\ last.op = "tick"
    /\ isPlaying
    /\ \E g \in grains, h \in grains :
          g.isDrone /\ ~h.isDrone /\ g.time = h.time

\* C14: while no sample is loaded, no step emits a grain.
C14_NoGrainWithoutSample ==
    ~audioBuffer => grains = {}

\* Without a sample, an animation frame ran after the clock had advanced, with a
\* held note in the registry.
C14_Witness ==
    /\ ~audioBuffer
    /\ last.op = "frame"
    /\ clock > 0
    /\ \E n \in DOMAIN activeNotes : ~activeNotes[n].isReleased

(***************************************************************************)
(* Cursor claims.                                                          *)
(***************************************************************************)
\* C15: nextGrainTime never decreases, whatever the step.
C15_CursorMonotonic ==
    [][nextGrainTime' >= nextGrainTime]_vars

\* C16: a tick that emits grains begins with nextGrainTime at most 0.2 s behind
\* the clock.
C16_NoCatchUpBurst ==
    [][(last'.op = "tick" /\ grains' # {}) =>
          nextGrainTime >= clock - ResyncLimit]_vars


(***************************************************************************)
(* Placement claims.                                                       *)
(***************************************************************************)
\* C17: every grain's excerpt fits inside the sample: its offset is at least 0 and
\* offset + duration is at most the sample's duration; and whenever the unshifted
\* offset plus grainSize exceeds the sample's duration, the grain ends exactly at
\* the sample's end, for every grainSize.
C17_GrainFitsInSample ==
    placed.done =>
        /\ placed.out.offsetSeconds >= 0
        /\ placed.out.offsetSeconds + 1000 * placed.out.duration
              <= 1000 * placed.sampleDuration
        /\ placed.out.shifted =>
              placed.out.offsetSeconds + 1000 * placed.out.duration
                = 1000 * placed.sampleDuration

\* C18: every grain's offset lies within the clip window,
\* [clipStart * sampleDuration, clipEnd * sampleDuration].
C18_OffsetInClipWindow ==
    placed.done =>
        /\ placed.out.offsetSeconds >= placed.clip[1] * placed.sampleDuration
        /\ placed.out.offsetSeconds <= placed.clip[2] * placed.sampleDuration


(***************************************************************************)
(* Snapshot claims.                                                        *)
(***************************************************************************)
\* C19: no tick observes a torn parameter set: every grain a tick emits, at
\* whichever of its slots, is computed from the one parameter set and the one clip
\* window that paramsRef and sampleRangeRef held when the tick began, each a
\* complete value, and the tick changes neither.
C19_SingleSnapshot ==
    [][last'.op = "tick" =>
          /\ DOMAIN paramsRef = DOMAIN DefaultParams
          /\ sampleRangeRef \in ClipWindows
          /\ paramsRef' = paramsRef
          /\ sampleRangeRef' = sampleRangeRef
          /\ \A g \in grains' :
                /\ g.clip = sampleRangeRef
                /\ g.duration = paramsRef.grainSize
                /\ g.isDrone => g.rate = paramsRef.pitch
                /\ ~g.isDrone =>
                      /\ g.note \in DOMAIN activeNotes
                      /\ g.rate = Rate(paramsRef, g.note)
                      /\ g.env = EnvGain(activeNotes[g.note], g.time, paramsRef)]_vars

\* After the clip window and an envelope parameter were changed, a tick emitted a
\* registry voice's grains at two slots.
C19_Witness ==
    /\ last.op = "tick"
    /\ sampleRangeRef # FullRange
    /\ paramsRef # DefaultParams
    /\ \E g \in grains, h \in grains :
          ~g.isDrone /\ g.note = h.note /\ g.time < h.time


(***************************************************************************)
(* Effect-send claims.                                                     *)
(***************************************************************************)
\* C20: whenever the parameter set changes while the audio graph exists, each of
\* the four effect-send controls receives a setTargetAtTime call whose target is
\* the parameter's current value and whose time constant is 0.1 s; and no control
\* is ever set in another way.
C20_SmoothedFx ==
    [][/\ (audioContext /\ params' # params) =>
            \A c \in FxControls :
                fx'[c] = [method |-> "setTargetAtTime", target |-> params'[c],
                          timeConstant |-> Ramp]
       /\ \A c \in FxControls : fx'[c].method \in {"none", "setTargetAtTime"}]_vars

\* With the graph built, the delay-time knob was turned to its minimum and a
\* preset changed the reverb send: the controls follow.
C20_Witness ==
    /\ audioContext
    /\ params.delayTime = 10
    /\ params.reverbWet = 500
    /\ fx["delayTime"].target = 10
    /\ fx["reverbWet"].target = 500


(***************************************************************************)
(* Parameter claims.                                                       *)
(***************************************************************************)
\* C21: after any sequence of knob changes and preset applications, every value
\* of the parameter set the scheduler reads lies within its range.
C21_ParamsInRange ==
    \A key \in DOMAIN paramsRef :
        /\ paramsRef[key] >= ParamRange[key][1]
        /\ paramsRef[key] <= ParamRange[key][2]


(***************************************************************************)
(* Loop claims.                                                            *)
(***************************************************************************)
\* C22: with an audio context and a sample present and the drone armed or the
\* registry non-empty, a scheduler tick is pending once a noteOn, a noteOff or a
\* drone toggle has been processed, the re-run of the start/stop effect included.
C22_TickPendingAfterHandler ==
    [][(/\ last'.op \in {"noteOn", "noteOff"} \/ isPlaying' # isPlaying
        /\ effectDue' = "none"
        /\ audioContext' /\ audioBuffer'
        /\ isPlaying' \/ DOMAIN activeNotes' # {})
          => \E i \in 1..Len(frames') : frames'[i].buf]_vars


\* C23: at most one scheduler tick is pending at any time, and it is the one whose
\* id timerIdRef holds, so no two loops re-arm themselves side by side.
C23_AtMostOneTick ==
    /\ Len(frames) <= 1
    /\ \A i \in 1..Len(frames) : frames[i].cur /\ timerIdRef = "id"

\* With the drone armed and a note in the registry, a tick has run and re-armed
\* itself.
C23_Witness ==
    /\ last.op = "tick"
    /\ isPlaying
    /\ DOMAIN activeNotes # {}
    /\ Len(frames) = 1


(***************************************************************************)
(* Slot claims.                                                            *)
(***************************************************************************)
\* The slot times at which the step emitted a grain.
GrainTimes == {g.time : g \in grains'}

\* C24: within a tick the first grain starts at the cursor, every further grain
\* starts exactly max(0.005, density) after another one, the cursor ends that far
\* after the last one, and no two slots are closer than 0.005 s, also for a
\* density of 0 or below.
C24_SlotSpacing ==
    [][(last'.op = "tick" /\ grains' # {}) =>
          LET step == Max(MinSpacing, paramsRef.density)
          IN  /\ nextGrainTime \in GrainTimes
              /\ \A t \in GrainTimes : t = nextGrainTime \/ (t - step) \in GrainTimes
              /\ \A t \in GrainTimes : (t + step) \in GrainTimes \/ t + step = nextGrainTime'
              /\ \A t \in GrainTimes, u \in GrainTimes : t < u => u - t >= MinSpacing]_vars

\* A tick read a density of 0 and emitted grains at several slots.
C24_Witness ==
    /\ last.op = "tick"
    /\ paramsRef.density = 0
    /\ \E g \in grains, h \in grains : h.time = g.time + MinSpacing


\* C25: every grain a call of scheduleGrains emits starts strictly before the
\* clock time of that call plus the lookahead of 0.1 s, and when a tick that ran
\* with a sample has finished, the cursor is at least that clock time plus 0.1 s.
C25_LookaheadBound ==
    /\ \A g \in grains : g.time < clock + Lookahead
    /\ last.op = "tick" => nextGrainTime >= clock + Lookahead

\* After the clock had advanced, a tick emitted a grain for the last slot inside
\* the lookahead window and left the cursor at its end.
C25_Witness ==
    /\ last.op = "tick"
    /\ clock > 0
    /\ nextGrainTime = clock + Lookahead
    /\ \E g \in grains : g.time = clock + Lookahead - paramsRef.density


\* The cursor after a call of scheduleGrains that started with the cursor at time t
\* and processed the slots of the lookahead window.
FirstCursorAfter(t) ==
    LET step == Max(MinSpacing, paramsRef.density)
    IN  t + ((Lookahead + step - 1) \div step) * step

\* C26: whenever the loop is started from a stopped state, by a noteOn or by the
\* start/stop effect, the cursor is at or after the clock; and a noteOn arriving
\* while the loop is not running (a sample being loaded) sets the cursor to the
\* clock time of that noteOn, from where the slots of its call are processed.
C26_RestartAtClock ==
    [][/\ (frames = << >> /\ frames' # << >>) => nextGrainTime' >= clock'
       /\ (last'.op = "noteOn" /\ audioContext /\ audioBuffer /\ frames = << >>)
             => nextGrainTime' \in {clock, FirstCursorAfter(clock)}]_vars


\* C27: a tick never modifies a registry entry: every entry that survives the
\* tick keeps its velocity, startTime, isReleased and releaseTime, no entry is
\* added, and an entry is removed only if it is released and its release had
\* elapsed at a slot of the tick.
C27_TickKeepsNoteState ==
    [][last'.op = "tick" =>
          /\ DOMAIN activeNotes' \subseteq DOMAIN activeNotes
          /\ \A n \in DOMAIN activeNotes' : activeNotes'[n] = activeNotes[n]
          /\ \A n \in DOMAIN activeNotes \ DOMAIN activeNotes' :
                /\ activeNotes[n].isReleased
                /\ \E t \in nextGrainTime..(nextGrainTime' - 1) :
                      t > activeNotes[n].releaseTime + paramsRef.release]_vars

\* A tick emitted grains of a releasing entry's tail and then, at a later slot,
\* removed the entry.
C27_Witness ==
    /\ last.op = "tick"
    /\ last.was = "swept"
    /\ \E g \in grains : ~g.isDrone /\ g.note \notin DOMAIN activeNotes


(***************************************************************************)
(* Placement claims: wrap, determinism, rate.                              *)
(***************************************************************************)
\* position + r * spread of the grain placed last, in thousandths, before the wrap.
Unwrapped == placed.p.position + (placed.r * placed.p.spread) \div 10

\* C28: for every position and spread in [0, 1] and every draw in [-1, 1] the
\* single wrap yields a relative position in [0, 1], one whole turn away from the
\* unwrapped value when that lay outside; position 0.95, spread 0.1 and the draw
\* 1.0 give 0.05.
C28_WrapIntoUnit ==
    placed.done =>
        /\ placed.out.relativeGrainPos >= 0
        /\ placed.out.relativeGrainPos <= 1000
        /\ Unwrapped < 0 => placed.out.relativeGrainPos = Unwrapped + 1000
        /\ Unwrapped > 1000 => placed.out.relativeGrainPos = Unwrapped - 1000
        /\ Unwrapped \in 0..1000 => placed.out.relativeGrainPos = Unwrapped
        /\ (placed.p.position = 950 /\ placed.p.spread = 100 /\ placed.r = 10)
              => placed.out.relativeGrainPos = 50

\* Position 0.95, spread 0.1, draw 1.0: the grain was placed at 0.05 of the clip.
C28_Witness ==
    /\ placed.done
    /\ placed.p.position = 950
    /\ placed.p.spread = 100
    /\ placed.r = 10
    /\ placed.out.relativeGrainPos = 50


\* C29: with spread = 0 the offset does not depend on the random draw: the next
\* grain, placed with another draw under the same position, clip window, grainSize
\* and sample, gets the same offset; and position 0.5, clip [0, 1], a sample of
\* 10 s and grainSize 0.1 s give an offset of exactly 5.0 s.
C29_DeterministicWithoutSpread ==
    [][(placed'.done /\ placed'.p.spread = 0) =>
          /\ placed.done => placed'.out.offsetSeconds = placed.out.offsetSeconds
          /\ (/\ placed'.p.position = 500 /\ placed'.clip = FullRange
              /\ placed'.sampleDuration = 10000 /\ placed'.p.grainSize = 100)
                => placed'.out.offsetSeconds = 5000000]_vars

\* Scenario 3, placed with a draw other than 0.
C29_Witness ==
    /\ placed.done
    /\ placed.r = 9
    /\ placed.p.spread = 0
    /\ placed.p.position = 500
    /\ placed.clip = FullRange
    /\ placed.sampleDuration = 10000
    /\ placed.p.grainSize = 100
    /\ placed.out.offsetSeconds = 5000000


\* C30: every grain's playback rate is at least 0.1, namely the larger of 0.1 and
\* the voice's rate times (1 + pr * pitchSpread), so never zero or negative; and a
\* voice for note 48 with pitchSpread = 0 plays at exactly the pitch parameter.
C30_RateFloor ==
    placed.done =>
        /\ placed.finalRate >= RateFloor
        /\ placed.finalRate >=
              Rate(placed.p, placed.note) * (10000 + placed.pr * placed.p.pitchSpread)
        /\ placed.finalRate > RateFloor =>
              placed.finalRate =
                Rate(placed.p, placed.note) * (10000 + placed.pr * placed.p.pitchSpread)
        /\ (placed.note = BaseNote /\ placed.p.pitchSpread = 0)
              => placed.finalRate = 10000 * placed.p.pitch

\* With pitchSpread 1 and the draw -1 the detuned rate is 0: the grain plays at
\* the floor.
C30_Witness ==
    /\ placed.done
    /\ placed.p.pitchSpread = 1000
    /\ placed.pr = -10
    /\ placed.finalRate = RateFloor


ClipWidth(range) == range[2] - range[1]

IsDrag == last'.op \in {"mousemove", "touchmove"}

\* C32 (first part): the clip window satisfies 0 <= start < end <= 1 after any
\* sequence of handle drags, move drags and sample loads.
C32_WindowInvariant ==
    /\ 0 <= sampleRange[1]
    /\ sampleRange[1] < sampleRange[2]
    /\ sampleRange[2] <= ClipOne

\* C32 (third part): a handle drag leaves a window at least 0.01 wide.
C32_HandleDragWidth ==
    [][(IsDrag /\ dragMode \in {"left", "right"})
         => ClipWidth(sampleRange') >= MinWidth]_vars

\* C32 (second part): a move drag leaves the width of the window as it was.
C32_MoveKeepsWidth ==
    [][(IsDrag /\ dragMode = "move")
         => ClipWidth(sampleRange') = ClipWidth(sampleRange)]_vars

\* C32 (second part, as the handlers have it): a move drag yields a window as
\* wide as the window of the last render.
C32_MoveKeepsRenderedWidth ==
    [][(IsDrag /\ dragMode = "move")
         => ClipWidth(sampleRange') = ClipWidth(sampleRangeRef)]_vars

\* C32: after any sequence of handle drags, move drags and sample loads the
\* clip window satisfies 0 <= start < end <= 1; a handle drag leaves it at least
\* 0.01 wide and a move drag leaves its width as it was.
C32_ClipWindowKept ==
    [][/\ C32_WindowInvariant'
       /\ (IsDrag /\ dragMode \in {"left", "right"})
             => ClipWidth(sampleRange') >= MinWidth
       /\ (IsDrag /\ dragMode = "move")
             => ClipWidth(sampleRange') = ClipWidth(sampleRange)]_vars

\* A move drag clamped the window at the right edge of the sample and kept its
\* width.
C32_Witness ==
    /\ last.op \in {"mousemove", "touchmove"}
    /\ dragMode = "move"
    /\ sampleRange[2] = ClipOne
    /\ sampleRange[1] > 0
    /\ ClipWidth(sampleRange) = ClipWidth(sampleRangeRef)


(***************************************************************************)
(* Parameter updates.                                                      *)
(***************************************************************************)
PresetKeySet == {PresetKeys[i] : i \in 1..Len(PresetKeys)}

\* C33 (single call): updateParam(key, value) from the latest render changes
\* that key of the scheduler's snapshot and no other.
C33_OneKeyChanged ==
    [][\A key \in FxControls : \A v \in FxKnob[key] :
         UpdateParam(key, v) => paramsRef' = [paramsRef EXCEPT ![key] = v]]_vars

\* C33: updateParam(key, value) changes only that key, also when several calls
\* on distinct keys are issued back-to-back before a re-render, as when a
\* preset is applied: afterwards the snapshot read by the scheduler holds, for
\* each key, the value most recently written to it.
C33_LatestWritten ==
    [][/\ \A key \in FxControls : \A v \in FxKnob[key] :
            UpdateParam(key, v) => paramsRef' = [paramsRef EXCEPT ![key] = v]
       /\ \A preset \in Presets :
            PresetDone(preset) =>
                \A key \in DOMAIN paramsRef :
                    paramsRef'[key] = IF key \in PresetKeySet THEN preset[key]
                                      ELSE paramsRef[key]]_vars


(***************************************************************************)
(* Visually active notes.                                                  *)
(***************************************************************************)
\* C34: the list of visually active notes has no duplicates and its elements
\* are exactly the registry entries that are not released, after any sequence
\* of noteOn, noteOff, re-triggers and sweeps.
C34_UIMatchesRegistry ==
    /\ SeqElems(activeNotesUI) =
           {n \in DOMAIN activeNotes : ~activeNotes[n].isReleased}
    /\ Cardinality(SeqElems(activeNotesUI)) = Len(activeNotesUI)

\* A noteOff released one of two held notes: the registry has both entries and
\* the list shows the held one only.
C34_Witness ==
    /\ last.op = "noteOff"
    /\ last.was = "held"
    /\ Cardinality(DOMAIN activeNotes) = 2
    /\ Len(activeNotesUI) = 1


(***************************************************************************)
(* Termination of a tick.                                                  *)
(***************************************************************************)
\* The number of slots between the cursor and the end of the lookahead window
\* of a call at the present clock, for slots that are step apart.
SlotsDue(step) ==
    IF nextGrainTime < clock + Lookahead
    THEN CeilDiv(clock + Lookahead - nextGrainTime, step)
    ELSE 0

\* C35: every tick terminates: for any density (0 and negative values
\* included) and any finite gap between the cursor and the clock, the lookahead
\* loop processes finitely many slots, namely the gap to the end of the
\* lookahead window divided by max(0.005, density), rounded up, which is at most
\* one slot per 0.005 s of the gap, and then returns with the cursor at or
\* beyond the end of the window and the next frame requested.
C35_TickTerminates ==
    [][last'.op = "tick" =>
          LET step == Max(MinSpacing, paramsRef.density)
              n == SlotsDue(step)
          IN  /\ nextGrainTime' = nextGrainTime + n * step
              /\ isPlaying => Cardinality(GrainTimes) = n
              /\ n <= SlotsDue(MinSpacing)
              /\ nextGrainTime' >= clock + Lookahead
              /\ Len(frames') >= 1]_vars

\* A tick that read a negative density, with the cursor more than the lookahead
\* behind the end of the window, has processed more than twenty slots and
\* returned.
C35_Witness ==
    /\ last.op = "tick"
    /\ paramsRef.density < 0
    /\ clock > 0
    /\ Cardinality({g.time : g \in grains}) > 20
    /\ nextGrainTime >= clock + Lookahead
    /\ Len(frames) >= 1

====
